---- MODULE Spec2Model ----
(***************************************************************************)
(* A model of the express-server repository: the two variants of the       *)
(* server script (src/app.js and src/unnamed/part_001), each of which      *)
(* registers three GET routes on an Express application and then listens   *)
(* on port 8000.  One or more instances of the script run as operating     *)
(* system processes that compete for the port; clients send HTTP requests  *)
(* to whichever instance owns it.                                          *)
(*                                                                         *)
(* The script pins no version of its one dependency, so the major version  *)
(* of Express that require('express') resolves to is chosen in Init.  The  *)
(* two majors differ (for what is modelled here) in what app.listen does    *)
(* with its callback when the server emits 'error', and in the automatic   *)
(* OPTIONS response.                                                       *)
(***************************************************************************)
EXTENDS Integers, Sequences, FiniteSets, TLC

\* Bound of the model: how many requests clients send in one run.
MaxRequests == 2

\* const PORT = 8000;
PORT == 8000

\* Two instances of the script: whichever calls listen first gets the port,
\* the other is an instance started while the port is taken.
Procs == {1, 2}
ReqIds == 1..MaxRequests
Variants == {"app.js", "part_001"}
ExpressMajors == {4, 5}

VARIABLES
    variant,       \* which of the two scripts is run
    expressMajor,  \* the major version require('express') resolved to
    pc,            \* per process: where the process is
    routes,        \* per process: the router's stack, in registration order
    listenCalls,   \* per process: how many times app.listen was called
    bindResult,    \* per process: "none", "ok" or "EADDRINUSE"
    stdout,        \* per process: the lines written by console.log
    exitCode,      \* per process: -1 while running, else the exit code
    portOwner,     \* the process bound to TCP port 8000, 0 when it is free
    req,           \* per request id: the request and how far it got
    resp           \* per request id: the response written, NoResp before

vars == <<variant, expressMajor, pc, routes, listenCalls, bindResult, stdout,
          exitCode, portOwner, req, resp>>

-----------------------------------------------------------------------------
\* Paths are sequences of characters, so that the router's matching
\* (case folding, the optional trailing slash) is computed, not assumed.

UpperCase == <<"A","B","C","D","E","F","G","H","I","J","K","L","M",
               "N","O","P","Q","R","S","T","U","V","W","X","Y","Z">>
LowerCase == <<"a","b","c","d","e","f","g","h","i","j","k","l","m",
               "n","o","p","q","r","s","t","u","v","w","x","y","z">>

ToLowerChar(c) ==
    IF \E i \in DOMAIN UpperCase : UpperCase[i] = c
    THEN LowerCase[CHOOSE i \in DOMAIN UpperCase : UpperCase[i] = c]
    ELSE c

ToLowerPath(p) == [i \in 1..Len(p) |-> ToLowerChar(p[i])]

RECURSIVE PathStr(_)
PathStr(p) == IF p = <<>> THEN "" ELSE Head(p) \o PathStr(Tail(p))

RECURSIVE Join(_, _)
Join(seq, sep) ==
    IF seq = <<>> THEN ""
    ELSE IF Len(seq) = 1 THEN seq[1]
    ELSE seq[1] \o sep \o Join(Tail(seq), sep)

\* The request paths and methods a client may send.
RootPath      == <<"/">>
IntroPath     == <<"/","i","n","t","r","o">>
AboutPath     == <<"/","a","b","o","u","t">>
SectionPath   == <<"/","s","e","c","t","i","o","n">>
IntroUpper    == <<"/","I","N","T","R","O">>
IntroSlash    == <<"/","i","n","t","r","o","/">>
MissingPath   == <<"/","d","o","e","s","-","n","o","t","-","e","x","i","s","t">>

RequestPaths == {RootPath, IntroPath, AboutPath, SectionPath, IntroUpper,
                 IntroSlash, MissingPath}
Methods == {"GET", "POST", "DELETE", "HEAD", "OPTIONS"}

Rq(m, path) == [method |-> m, path |-> path]

\* The requests clients send: GET of every path, and the other methods
\* against registered and unregistered paths.
Requests ==
    {Rq("GET", path) : path \in RequestPaths}
      \cup {Rq("POST", RootPath), Rq("DELETE", IntroPath), Rq("HEAD", IntroPath),
            Rq("OPTIONS", RootPath), Rq("OPTIONS", MissingPath)}

MethodLower(m) ==
    CASE m = "GET" -> "get"
      [] m = "POST" -> "post"
      [] m = "DELETE" -> "delete"
      [] m = "HEAD" -> "head"
      [] m = "OPTIONS" -> "options"
      [] OTHER -> m

MethodUpper(m) ==
    CASE m = "get" -> "GET"
      [] m = "post" -> "POST"
      [] m = "delete" -> "DELETE"
      [] m = "head" -> "HEAD"
      [] m = "options" -> "OPTIONS"
      [] OTHER -> m

-----------------------------------------------------------------------------
\* The route registrations of each script, in source order.

ScriptA ==
    << [method |-> "get", path |-> RootPath,  body |-> "Hello from Express!"],
       [method |-> "get", path |-> IntroPath, body |-> "Hello I am anuj!"],
       [method |-> "get", path |-> AboutPath, body |-> "about me"] >>

ScriptB ==
    << [method |-> "get", path |-> RootPath,    body |-> "Hello from Express!"],
       [method |-> "get", path |-> IntroPath,   body |-> "Hello I am anuj!"],
       [method |-> "get", path |-> SectionPath, body |-> "sexction"] >>

Script(v) == IF v = "app.js" THEN ScriptA ELSE ScriptB

\* console.log(`Server is running on http://localhost:${PORT}`)
StartupMessage == "Server is running on http://localhost:" \o ToString(PORT)

-----------------------------------------------------------------------------
\* Responses.

\* Variant of HtmlType: the type of a response sent as plain text.
PlainType == "text/plain; charset=utf-8"

HtmlType == "text/html; charset=utf-8"

NoResp == [status |-> 0, ctype |-> "", body |-> "", allow |-> "",
           layer |-> 0, sends |-> 0, ended |-> FALSE]

\* Variant of ResSend that writes the body as a line, newline-terminated.
ResSendLine(method, body, layer) ==
    [status |-> 200, ctype |-> "text/html; charset=utf-8",
     body |-> IF method = "HEAD" THEN "" ELSE body \o "\n",
     allow |-> "", layer |-> layer, sends |-> 1, ended |-> TRUE]

\* res.send(body) with a string and no Content-Type set: the type defaults to
\* html, the status stays 200, and a HEAD request gets the headers only.
ResSend(method, body, layer) ==
    [status |-> 200, ctype |-> HtmlType,
     body |-> IF method = "HEAD" THEN "" ELSE body,
     allow |-> "", layer |-> layer, sends |-> 1, ended |-> TRUE]

\* Variant of FinalHandler for an application with no fallback: nothing is
\* written and the response is never ended.
FinalHandlerSilent(method, path) ==
    [status |-> 0, ctype |-> "", body |-> "", allow |-> "", layer |-> 0,
     sends |-> 0, ended |-> FALSE]

\* Nothing answered: the framework's final handler writes the 404 page.
FinalHandler(method, path) ==
    [status |-> 404, ctype |-> HtmlType,
     body |-> IF method = "HEAD" THEN ""
              ELSE "<!DOCTYPE html>\n<html lang=\"en\">\n<head>\n"
                   \o "<meta charset=\"utf-8\">\n<title>Error</title>\n</head>\n"
                   \o "<body>\n<pre>Cannot " \o method \o " " \o PathStr(path)
                   \o "</pre>\n</body>\n</html>\n",
     allow |-> "", layer |-> 0, sends |-> 0, ended |-> TRUE]

\* The automatic answer to OPTIONS when routes match the path but none
\* handles the method: 200 with the Allow list.
SendOptionsResponse(major, options) ==
    IF major = 4
    THEN [status |-> 200, ctype |-> HtmlType, body |-> Join(options, ","),
          allow |-> Join(options, ","), layer |-> 0, sends |-> 1,
          ended |-> TRUE]
    ELSE [status |-> 200, ctype |-> "text/plain", body |-> Join(options, ", "),
          allow |-> Join(options, ", "), layer |-> 0, sends |-> 0,
          ended |-> TRUE]

-----------------------------------------------------------------------------
\* Routing.

\* Variant of MatchLayer without the end anchor (the matching of app.use):
\* the route path need only be a prefix of the request path.
MatchPrefix(routePath, reqPath) ==
    LET r == ToLowerPath(routePath)
        q == ToLowerPath(reqPath)
    IN  Len(q) >= Len(r) /\ SubSeq(q, 1, Len(r)) = r

\* A route path against a request path, under the settings of a fresh
\* express(): 'case sensitive routing' and 'strict routing' both disabled.
\* The compiled pattern is the route path, an optional trailing slash, and
\* the end of the path, compared without regard to letter case.
MatchLayer(routePath, reqPath) ==
    LET r == ToLowerPath(routePath)
        q == ToLowerPath(reqPath)
    IN  \/ q = r
        \/ r[Len(r)] # "/" /\ q = Append(r, "/")
        \/ r[Len(r)] = "/" /\ q = SubSeq(r, 1, Len(r) - 1)

\* Variant of HandlesMethod for a route registered with app.all.
HandlesAnyMethod(layer, method) == TRUE

\* A route registered with app.get handles GET, and HEAD in its place.
HandlesMethod(layer, method) ==
    LET m  == MethodLower(method)
        m2 == IF m = "head" /\ layer.method # "head" THEN "get" ELSE m
    IN  layer.method = m2

\* The methods a route advertises in an automatic OPTIONS response.
RouteOptions(layer) ==
    IF layer.method = "get" THEN <<"GET", "HEAD">>
    ELSE <<MethodUpper(layer.method)>>

AppendMethods(options, more) ==
    options \o SelectSeq(more, LAMBDA x : \A i \in DOMAIN options : options[i] # x)

\* The request handler (req, res) => { res.send(<literal>) } of a route.
RouteHandler(layer, idx, method) == ResSend(method, layer.body, idx)

\* The router walks its stack in registration order; the first layer whose
\* path and method match answers.
RECURSIVE RouterNext(_, _, _, _, _, _)
RouterNext(stack, idx, major, method, path, options) ==
    IF idx > Len(stack)
    THEN IF method = "OPTIONS" /\ options # <<>>
         THEN SendOptionsResponse(major, options)
         ELSE FinalHandler(method, path)
    ELSE LET layer == stack[idx] IN
         IF ~MatchLayer(layer.path, path)
         THEN RouterNext(stack, idx + 1, major, method, path, options)
         ELSE IF ~HandlesMethod(layer, method)
         THEN RouterNext(stack, idx + 1, major, method, path,
                         IF method = "OPTIONS"
                         THEN AppendMethods(options, RouteOptions(layer))
                         ELSE options)
         ELSE RouteHandler(layer, idx, method)

AppHandle(stack, major, method, path) ==
    RouterNext(stack, 1, major, method, path, <<>>)

\* Variant of StackAfterHandler for a one-shot handler, which removes its own
\* route once it has answered.
StackWithoutAnswered(stack, r) ==
    IF r.layer = 0 THEN stack
    ELSE SubSeq(stack, 1, r.layer - 1) \o SubSeq(stack, r.layer + 1, Len(stack))

\* A handler only writes to its response: the router's stack is the same
\* after it ran.
StackAfterHandler(stack, r) == stack

-----------------------------------------------------------------------------
\* The state after the processes are created and before any line ran.

NoReq == [st |-> "none", method |-> "", path |-> <<>>, server |-> 0]

Init ==
    /\ variant \in Variants
    /\ expressMajor \in ExpressMajors
    /\ pc = [p \in Procs |-> "start"]
    /\ routes = [p \in Procs |-> <<>>]
    /\ listenCalls = [p \in Procs |-> 0]
    /\ bindResult = [p \in Procs |-> "none"]
    /\ stdout = [p \in Procs |-> <<>>]
    /\ exitCode = [p \in Procs |-> -1]
    /\ portOwner = 0
    /\ req = [i \in ReqIds |-> NoReq]
    /\ resp = [i \in ReqIds |-> NoResp]

\* app.get(path, handler): appends one route to the router's stack.
AppGet(stack, route) == Append(stack, route)

\* The app.get statements of a script, run in source order.
RECURSIVE RegisterRoutes(_, _)
RegisterRoutes(stack, script) ==
    IF script = <<>> THEN stack
    ELSE RegisterRoutes(AppGet(stack, Head(script)), Tail(script))

\* Variant of ScriptRuns under a supervisor that runs the script again in
\* the same process after a failed start.
ScriptRunsAgain(p) == pc[p] \in {"start", "exited"}

\* The script is the process's entry point: it runs once, when the process
\* starts.
ScriptRuns(p) == pc[p] = "start"

\* The script, top to bottom, in one turn of the event loop: express(), the
\* three app.get statements, then app.listen(PORT, callback).  The bind is
\* attempted inside listen; its outcome ('listening' or 'error') is emitted
\* on the next tick.
RunScript(p) ==
    /\ ScriptRuns(p)
    /\ routes' = [routes EXCEPT ![p] = RegisterRoutes(<<>>, Script(variant))]
    /\ listenCalls' = [listenCalls EXCEPT ![p] = @ + 1]
    /\ IF portOwner = 0
       THEN /\ portOwner' = p
            /\ bindResult' = [bindResult EXCEPT ![p] = "ok"]
            /\ pc' = [pc EXCEPT ![p] = "bound"]
       ELSE /\ portOwner' = portOwner
            /\ bindResult' = [bindResult EXCEPT ![p] = "EADDRINUSE"]
            /\ pc' = [pc EXCEPT ![p] = "error_pending"]
    /\ UNCHANGED <<variant, expressMajor, stdout, exitCode, req, resp>>

\* 'listening' is emitted: the callback runs and the event loop starts
\* serving connections.
EmitListening(p) ==
    /\ pc[p] = "bound"
    /\ stdout' = [stdout EXCEPT ![p] = Append(@, StartupMessage)]
    /\ pc' = [pc EXCEPT ![p] = "listening"]
    /\ UNCHANGED <<variant, expressMajor, routes, listenCalls, bindResult,
                   exitCode, portOwner, req, resp>>

\* What the 'error' event of a failed bind does to the process.
\* Express 4 hands the callback to server.listen, which attaches it to
\* 'listening' only: 'error' has no listener, is thrown, and the process ends
\* with exit code 1.  Express 5 also attaches the callback to 'error': it runs
\* (ignoring its argument, it logs the message), nothing keeps the event loop
\* alive, and the process ends with exit code 0.
ErrorOutcome(major) ==
    IF major = 4
    THEN [callback |-> FALSE, exit |-> 1]
    ELSE [callback |-> TRUE, exit |-> 0]

EmitError(p) ==
    /\ pc[p] = "error_pending"
    /\ LET o == ErrorOutcome(expressMajor) IN
        /\ stdout' = [stdout EXCEPT ![p] =
                         IF o.callback THEN Append(@, StartupMessage) ELSE @]
        /\ exitCode' = [exitCode EXCEPT ![p] = o.exit]
    /\ pc' = [pc EXCEPT ![p] = "exited"]
    /\ UNCHANGED <<variant, expressMajor, routes, listenCalls, bindResult,
                   portOwner, req, resp>>

\* A client connects to port 8000 and sends a request; the connection is
\* accepted by whichever process is bound to the port.  Request ids are
\* handed out in order.
SendRequest(i, rq) ==
    /\ req[i].st = "none"
    /\ IF i = 1 THEN TRUE ELSE req[i - 1].st # "none"
    /\ portOwner # 0
    /\ req' = [req EXCEPT ![i] = [st |-> "pending", method |-> rq.method,
                                  path |-> rq.path, server |-> portOwner]]
    /\ UNCHANGED <<variant, expressMajor, pc, routes, listenCalls, bindResult,
                   stdout, exitCode, portOwner, resp>>

\* Variant of HandlerInput that keeps the current request in one shared
\* slot, overwritten by each arrival.
HandlerInputShared(i) ==
    LET sent == {j \in ReqIds : req[j].st # "none"}
    IN  req[CHOOSE j \in sent : \A k \in sent : k <= j]

\* The request object the framework hands to the handler for request i.
HandlerInput(i) == req[i]

\* The event loop of the serving process takes one pending request and runs
\* it through the application to completion (handlers are synchronous).
Dispatch(i) ==
    /\ req[i].st = "pending"
    /\ pc[req[i].server] = "listening"
    /\ LET s  == req[i].server
           in == HandlerInput(i)
           r  == AppHandle(routes[s], expressMajor, in.method, in.path)
       IN  /\ resp' = [resp EXCEPT ![i] = r]
           /\ req' = [req EXCEPT ![i].st = IF r.ended THEN "done" ELSE "hung"]
           /\ routes' = [routes EXCEPT ![s] = StackAfterHandler(@, r)]
    /\ UNCHANGED <<variant, expressMajor, pc, listenCalls, bindResult, stdout,
                   exitCode, portOwner>>

Next ==
    \/ \E p \in Procs : RunScript(p)
    \/ \E p \in Procs : EmitListening(p)
    \/ \E p \in Procs : EmitError(p)
    \/ \E i \in ReqIds, rq \in Requests : SendRequest(i, rq)
    \/ \E i \in ReqIds : Dispatch(i)

Spec == Init /\ [][Next]_vars

\* One turn of the event loop of process p: an emitted event or a pending
\* request of its server.
EventLoop(p) ==
    \/ EmitListening(p)
    \/ EmitError(p)
    \/ \E i \in ReqIds : req[i].server = p /\ Dispatch(i)

\* Node's event loop runs every callback that is ready.
FairSpec == Spec /\ \A p \in Procs : WF_vars(EventLoop(p))

-----------------------------------------------------------------------------
\* The properties.

\* The route table each script is stated to serve: <<path, body>> pairs.
TableA == { <<RootPath, "Hello from Express!">>,
            <<IntroPath, "Hello I am anuj!">>,
            <<AboutPath, "about me">> }
TableB == { <<RootPath, "Hello from Express!">>,
            <<IntroPath, "Hello I am anuj!">>,
            <<SectionPath, "sexction">> }
Table == IF variant = "app.js" THEN TableA ELSE TableB
Keys == {e[1] : e \in Table}
Literals == {e[2] : e \in TableA \cup TableB}

Done(i) == req[i].st = "done"
Answered == {i \in ReqIds : Done(i)}

\* A request path that equals a registered path up to letter case and one
\* trailing slash.
LooselyRegistered(path) ==
    \E k \in Keys :
        \/ ToLowerPath(path) = ToLowerPath(k)
        \/ ToLowerPath(path) = Append(ToLowerPath(k), "/")

\* C1: a GET request whose path is a key of the running variant's route table
\* is answered 200 with exactly the registered literal as body.
C1_MappedGetReturnsLiteral ==
    \A i \in Answered :
        req[i].method = "GET" =>
            \A e \in Table :
                req[i].path = e[1] => resp[i].status = 200 /\ resp[i].body = e[2]

C1_Witness ==
    \E i \in Answered :
        /\ req[i].method = "GET"
        /\ req[i].path \in Keys \ {RootPath, IntroPath}
        /\ resp[i].status = 200
        /\ resp[i].body \in {"about me", "sexction"}

C3_NonGetIs404 ==
    \A i \in Answered :
        req[i].method # "GET" /\ req[i].path \in Keys =>
            /\ resp[i].status = 404
            /\ \A e \in Table : e[1] = req[i].path => resp[i].body # e[2]

\* C3 as amended: a request with any method other than GET to a mapped path
\* is never answered with the literal registered for that path; it is
\* answered with the default 404 unless the method is HEAD or OPTIONS.  HEAD
\* is answered by the GET route with status 200 and an empty body, OPTIONS
\* with status 200 and the list of allowed methods, GET and HEAD.
C3_NonGetNeverLiteral ==
    \A i \in Answered :
        req[i].method # "GET" /\ req[i].path \in Keys =>
            /\ \A e \in Table : e[1] = req[i].path => resp[i].body # e[2]
            /\ req[i].method \notin {"HEAD", "OPTIONS"} => resp[i].status = 404
            /\ req[i].method = "HEAD" =>
                   resp[i].status = 200 /\ resp[i].body = ""
            /\ req[i].method = "OPTIONS" =>
                   /\ resp[i].status = 200
                   /\ resp[i].allow \in {"GET,HEAD", "GET, HEAD"}
                   /\ resp[i].body = resp[i].allow

C3_Witness ==
    \E i, j \in Answered :
        /\ req[i].method = "POST" /\ req[i].path = RootPath
        /\ resp[i].status = 404
        /\ req[j].method \in {"HEAD", "OPTIONS"} /\ req[j].path \in Keys
        /\ resp[j].status = 200

\* C4 as stated: every 200 response to a GET of a mapped path carries content
\* type text/plain.
C4_ContentTypePlain ==
    \A i \in Answered :
        req[i].method = "GET" /\ req[i].path \in Keys /\ resp[i].status = 200 =>
            resp[i].ctype = "text/plain"

\* C4 as amended: every 200 response to a GET of a mapped path carries content
\* type text/html; charset=utf-8, the type res.send gives a string when the
\* handler set none.
C4_ContentTypeHtml ==
    \A i \in Answered :
        req[i].method = "GET" /\ req[i].path \in Keys /\ resp[i].status = 200 =>
            resp[i].ctype = "text/html; charset=utf-8"

C4_Witness ==
    \E i \in Answered :
        /\ req[i].method = "GET" /\ req[i].path \in Keys
        /\ resp[i].status = 200
        /\ resp[i].ctype = "text/html; charset=utf-8"

\* C5: an instance started while port 8000 is bound fails to bind, and the
\* failure is fatal: it never listens, never reports that it is running, does
\* not call listen again, and ends with a non-zero exit code, while the
\* instance that holds the port keeps it.
C5_BindFailureIsFatal ==
    \A p \in Procs :
        bindResult[p] = "EADDRINUSE" =>
            /\ pc[p] \notin {"bound", "listening"}
            /\ portOwner \notin {0, p}
            /\ pc[portOwner] \in {"bound", "listening"}
            /\ stdout[p] = <<>>
            /\ listenCalls[p] = 1
            /\ pc[p] = "exited" => exitCode[p] \notin {-1, 0}

\* C6: the startup message is written at most once per process, names port
\* 8000, and is written only by a process whose bind succeeded, never by one
\* whose bind failed.
C6_MessageOnlyAfterBind ==
    \A p \in Procs :
        /\ Len(stdout[p]) <= 1
        /\ stdout[p] # <<>> =>
               /\ stdout[p][1] = "Server is running on http://localhost:8000"
               /\ bindResult[p] = "ok"
               /\ portOwner = p

\* C7: a server is unbound or listening and goes from unbound to listening
\* only, by the one call of listen the script makes after its routes are
\* registered: a listening server stays listening, listen is called at most
\* once and with the whole route table registered, and a request is dispatched
\* only by a server that is listening.
C7_Lifecycle ==
    /\ [](\A p \in Procs :
            /\ listenCalls[p] <= 1
            /\ portOwner = p <=> pc[p] \in {"bound", "listening"}
            /\ listenCalls[p] = 1 => Len(routes[p]) = Cardinality(Table)
            /\ listenCalls[p] = 0 => pc[p] = "start" /\ portOwner # p)
    /\ [][\A p \in Procs :
            /\ portOwner = p => portOwner' = p
            /\ pc[p] = "listening" => pc'[p] = "listening"
            /\ listenCalls'[p] >= listenCalls[p]]_vars
    /\ [][\A i \in ReqIds :
            req[i].st = "pending" /\ req'[i].st # "pending" =>
                /\ portOwner = req[i].server
                /\ pc[req[i].server] = "listening"]_vars

C7_Witness ==
    \E p, q \in Procs :
        /\ pc[p] = "listening" /\ portOwner = p
        /\ pc[q] = "exited" /\ listenCalls[q] = 1
        /\ \E i \in Answered : req[i].server = p

\* C8: the route table is built once, by the script, and no request changes
\* it; a request repeated gets the same status and body every time.
C8_RouteTableImmutable ==
    /\ [][\A p \in Procs : listenCalls[p] >= 1 => routes'[p] = routes[p]]_vars
    /\ [](\A p \in Procs :
            listenCalls[p] >= 1 =>
                {<<routes[p][k].path, routes[p][k].body>> : k \in DOMAIN routes[p]}
                    = Table)
    /\ [](\A i, j \in Answered :
            req[i].method = req[j].method /\ req[i].path = req[j].path =>
                resp[i].status = resp[j].status /\ resp[i].body = resp[j].body)

C8_Witness ==
    /\ \A i \in ReqIds : Done(i)
    /\ \A i \in ReqIds :
           /\ req[i].method = "GET" /\ req[i].path = IntroPath
           /\ resp[i].status = 200 /\ resp[i].body = "Hello I am anuj!"

\* The response to (method, path) from a server that never saw another
\* request: the application as the script built it, applied to that request.
Alone(m, path) ==
    AppHandle(RegisterRoutes(<<>>, Script(variant)), expressMajor, m, path)

\* C9: whatever the interleaving of the requests in flight, each request gets
\* the response it would get were it the only request ever sent, and that
\* response goes to the request that caused it.
C9_ResponseDependsOnOwnRequest ==
    \A i \in ReqIds :
        /\ Done(i) => resp[i] = Alone(req[i].method, req[i].path)
        /\ ~Done(i) => resp[i] = NoResp

C9_Witness ==
    /\ req[1].st = "pending" /\ Done(2)
    /\ req[1].method = "GET" /\ req[1].path = RootPath
    /\ req[2].method = "POST" /\ req[2].path = RootPath
    /\ resp[2].status = 404

====
